---- MODULE Spec2Model ----
(***************************************************************************)
(* Model of the Open WebUI MCP server: the credential-propagation gateway  *)
(* (AuthMiddleware, _current_user_token, get_user_token) of main.py and    *)
(* the generic dispatcher (OpenWebUIClient) of client.py.                  *)
(*                                                                         *)
(* Python values are modelled as follows.                                  *)
(*   str / bytes    a sequence of one-character strings, <<"h", "/">>      *)
(*   Optional[str]  None is <<>>, a value s is <<s>>                       *)
(*   dict           headers: a function from names to values; a decoded   *)
(*                  JSON object: the set of its <<key, value>> pairs       *)
(***************************************************************************)
EXTENDS Integers, Sequences, FiniteSets, TLC

VARIABLES
    env,                  \* os.environ: name -> Optional[str]
    main_pc,              \* position of main(): "start", "exited", "http", "stdio"
    exit_code,            \* exit status of the process: <<>> while it runs, <<1>> after sys.exit(1)
    stderr,               \* diagnostics printed on the error stream
    _client,              \* main.py module global: <<>> or <<client object>>
    constructed,          \* how many OpenWebUIClient objects __init__ completed
    _current_user_token,  \* the ContextVar: context -> Optional[str]
    pc,                   \* per invocation: its position
    scope,                \* per invocation: the ASGI scope it arrived with
    kind,                 \* per invocation: "tool" handler or "direct" dispatcher call
    api_key,              \* per invocation: the api_key argument given to the dispatcher
    sent,                 \* per invocation: the backend requests issued, in order
    response,             \* per invocation: what the backend answered
    outcome,              \* per invocation: what the caller received
    forwards,             \* per invocation: times the adapter called the wrapped app
    tool,                 \* per invocation: the tool invoked and the arguments it came with
    elapsed,              \* per invocation: seconds since its backend request went out
    waited                \* per invocation: seconds since the backend last sent any data

vars == <<env, main_pc, exit_code, stderr, _client, constructed, _current_user_token,
          pc, scope, kind, api_key, sent, response, outcome, forwards, tool, elapsed, waited>>

-----------------------------------------------------------------------------
(* Python values *)

None == <<>>
Some(s) == <<s>>

\* bool(x) of an Optional[str]: None and "" are falsy
\* a test that takes the empty string for a value: `is not None`
TruthyNotNone(o) == o # None
Truthy(o) == o # None /\ o[1] # <<>>

\* s.startswith(p)
StartsWith(s, p) == Len(s) >= Len(p) /\ SubSeq(s, 1, Len(p)) = p

\* s[n:]
SliceFrom(s, n) == SubSeq(s, n + 1, Len(s))

\* s.rstrip(c): every trailing c removed
RECURSIVE RStrip(_, _)
RStrip(s, c) ==
    IF s # <<>> /\ s[Len(s)] = c THEN RStrip(SubSeq(s, 1, Len(s) - 1), c) ELSE s

\* s.lower(), on the letters the transport names use
LowerChar(c) ==
    CASE c = "H" -> "h" [] c = "T" -> "t" [] c = "P" -> "p"
      [] c = "S" -> "s" [] c = "D" -> "d" [] c = "I" -> "i" [] c = "O" -> "o"
      [] OTHER -> c
Lower(s) == [i \in 1..Len(s) |-> LowerChar(s[i])]

\* A byte that is not valid UTF-8 on its own (0xFF)
xFF == "\\xff"

\* bytes.decode(): strict UTF-8; ASCII bytes map to themselves
DecodeOk(b) == \A i \in 1..Len(b) : b[i] # xFF
Decode(b) == b

-----------------------------------------------------------------------------
(* Literals of the source *)

BearerPrefix == <<"B", "e", "a", "r", "e", "r", " ">>
AppJson == <<"a", "p", "p", "l", "i", "c", "a", "t", "i", "o", "n", "/", "j", "s", "o", "n">>
HttpName == <<"h", "t", "t", "p">>
StdioName == <<"s", "t", "d", "i", "o">>
AuthsPath == <<"/", "a", "p", "i", "/", "v", "1", "/", "a", "u", "t", "h", "s", "/">>
TextKey == <<"t", "e", "x", "t">>

UsersPath == <<"/", "a", "p", "i", "/", "v", "1", "/", "u", "s", "e", "r", "s", "/">>
UpdateRoleSuffix == <<"/", "u", "p", "d", "a", "t", "e", "/", "r", "o", "l", "e">>
RoleKey == <<"r", "o", "l", "e">>
\* os.getenv("MCP_HTTP_PORT", "8000")
DefaultPort == <<"8", "0", "0", "0">>
\* httpx.AsyncClient(timeout=60.0)
TimeoutSeconds == 60

\* os.getenv(name) and os.getenv(name, default)
Getenv(name) == env[name]
GetenvDefault(name, default) == IF env[name] = None THEN default ELSE env[name][1]

-----------------------------------------------------------------------------
(* The inputs the model draws *)

\* how many units of work the server handles at the same time
MaxInvocations == 2
Invocations == 1..MaxInvocations
\* the context of the server itself, which every task copies when it starts
Base == 0
Contexts == Invocations \cup {Base}
\* A ContextVar holds one value per context, and every asyncio task runs in
\* a context of its own: the tasks of two units of work never share a value
ContextOfShared(r) == Base
ContextOf(r) == r

EnvUrls == {None, Some(<<>>), Some(<<"/">>), Some(<<"h">>), Some(<<"h", "/">>)}
EnvKeys == {None, Some(<<>>), Some(<<"k">>)}
EnvTransports == {None, Some(HttpName), Some(<<"H", "T", "T", "P">>), Some(<<"s", "s", "e">>)}
EnvPorts == {None, Some(<<"8">>), Some(<<"x">>)}
\* the environments the process starts in: every URL, key and transport with
\* the port left unset, and every transport and port with the URL set
Envs ==
    [OPENWEBUI_URL : EnvUrls, OPENWEBUI_API_KEY : EnvKeys, MCP_TRANSPORT : EnvTransports,
     MCP_HTTP_PORT : {None}]
      \cup [OPENWEBUI_URL : {Some(<<"h">>)}, OPENWEBUI_API_KEY : {None},
            MCP_TRANSPORT : EnvTransports, MCP_HTTP_PORT : EnvPorts]

TextPlain == <<"t", "e", "x", "t", "/", "p", "l", "a", "i", "n">>
JsonCharset == AppJson \o <<";", " ", "c", "h", "a", "r", "s", "e", "t", "=", "u", "t", "f", "-", "8">>
IdBody == <<"{", "\"", "i", "d", "\"", ":", "\"", "x", "\"", "}">>
OkBody == <<"o", "k">>

\* Authorization header values a client may send (bytes)
AuthValues ==
    { BearerPrefix \o <<"a">>,                     \* Bearer a
      BearerPrefix \o <<"b">>,                     \* Bearer b
      BearerPrefix,                                \* "Bearer " with an empty token
      <<"b", "e", "a", "r", "e", "r", " ", "a">>,  \* bearer a
      <<"B", "a", "s", "i", "c", " ", "a">>,       \* Basic a
      <<"B", "e", "a", "r", "e", "r">>,            \* Bearer, no space
      <<xFF>> }                                    \* bytes that are not UTF-8

\* ASGI header lists: (name, value) pairs, names lower-cased by the server
HeaderLists ==
    {<<>>, << <<"accept", AppJson>> >>}
      \cup { << <<"authorization", v>> >> : v \in AuthValues }

\* ASGI scopes: http requests carry headers, lifespan events carry none
NoScope == [type |-> "none", has_headers |-> FALSE, headers |-> <<>>]
HttpScopes == { [type |-> "http", has_headers |-> TRUE, headers |-> h] : h \in HeaderLists }
LifespanScope == [type |-> "lifespan", has_headers |-> FALSE, headers |-> <<>>]
Scopes == HttpScopes \cup {LifespanScope}
\* the scopes drawn when units of work run concurrently
ConcurrentScopes ==
    { [type |-> "http", has_headers |-> TRUE, headers |-> h] :
        h \in {<<>>} \cup { << <<"authorization", v>> >> :
                               v \in {BearerPrefix \o <<"a">>, BearerPrefix \o <<"b">>, BearerPrefix} } }

\* Tool arguments: a JSON object as a list of (name, value) pairs, a value being
\* a string or a number
StrVal(s) == [type |-> "str", val |-> s]
IntVal(s) == [type |-> "int", val |-> s]
NoCall == [name |-> "none", args |-> <<>>]
ParamTools == {"get_user", "update_user_role"}
ArgLists ==
    { <<>>,
      << <<"user_id", StrVal(<<"u">>)>> >>,
      << <<"user_id", IntVal(<<"7">>)>> >>,
      << <<"user_id", StrVal(<<"u">>)>>, <<"role", StrVal(<<"a", "d", "m", "i", "n">>)>> >>,
      << <<"user_id", StrVal(<<"u">>)>>, <<"role", IntVal(<<"1">>)>> >> }

\* values the context variable may hold when the adapter is entered
EntryValues == {None, Some(<<>>), Some(<<"z">>)}

\* api_key arguments a direct caller of the dispatcher may pass
ExplicitKeys == {None, Some(<<>>), Some(<<"a">>), Some(<<"c">>)}

-----------------------------------------------------------------------------
(* Backend responses *)

NoResponse == [status |-> 0, ctype |-> None, body |-> <<>>]
AllResponses ==
    [status : {200, 204, 301, 401, 403, 404, 500},
     ctype  : {None, Some(AppJson), Some(JsonCharset), Some(TextPlain)},
     body   : {IdBody, OkBody, <<>>}]
FewResponses ==
    { [status |-> 200, ctype |-> Some(AppJson), body |-> IdBody],
      [status |-> 404, ctype |-> Some(TextPlain), body |-> OkBody] }

NoOutcome == [kind |-> "none", exc |-> "", status |-> 0, body |-> <<>>, value |-> {}]
Returned(v) == [kind |-> "return", exc |-> "", status |-> 0, body |-> <<>>, value |-> v]
Raised(e, st, b) == [kind |-> "raise", exc |-> e, status |-> st, body |-> b, value |-> {}]

-----------------------------------------------------------------------------
(* client.py *)

\* __init__ keeping the base URL as it is given, trailing slash included
ClientInitNoStrip(base_url_arg, api_key_arg) ==
    LET base_url == IF Truthy(base_url_arg) THEN base_url_arg[1]
                    ELSE GetenvDefault("OPENWEBUI_URL", <<>>)
        key == IF Truthy(api_key_arg) THEN api_key_arg[1]
               ELSE GetenvDefault("OPENWEBUI_API_KEY", <<>>)
    IN  [ok |-> base_url # <<>>, base_url |-> base_url, api_key |-> key]

\* OpenWebUIClient.__init__(base_url, api_key): the object, or ValueError
ClientInit(base_url_arg, api_key_arg) ==
    LET base_url == RStrip(IF Truthy(base_url_arg) THEN base_url_arg[1]
                           ELSE GetenvDefault("OPENWEBUI_URL", <<>>), "/")
        key == IF Truthy(api_key_arg) THEN api_key_arg[1]
               ELSE GetenvDefault("OPENWEBUI_API_KEY", <<>>)
    IN  [ok |-> base_url # <<>>, base_url |-> base_url, api_key |-> key]

\* _get_headers without the test of the token: the header is always attached
GetHeadersAlwaysAuth(self, key) ==
    LET token == IF Truthy(key) THEN key[1] ELSE self.api_key
    IN  ("Authorization" :> (BearerPrefix \o token)) @@ ("Content-Type" :> AppJson)

\* _get_headers with the scheme left out of the header value
GetHeadersNoScheme(self, key) ==
    LET token == IF Truthy(key) THEN key[1] ELSE self.api_key
        headers == "Content-Type" :> AppJson
    IN  IF token # <<>> THEN ("Authorization" :> token) @@ headers ELSE headers

\* _get_headers with the precedence reversed: the client's own key first
GetHeadersFallbackFirst(self, key) ==
    LET token == IF self.api_key # <<>> THEN self.api_key
                 ELSE IF key = None THEN <<>> ELSE key[1]
        headers == "Content-Type" :> AppJson
    IN  IF token # <<>>
        THEN ("Authorization" :> (BearerPrefix \o token)) @@ headers
        ELSE headers

\* _get_headers with the fallback switched off: the client's own key, whether
\* it comes as the argument or from self, is not sent
GetHeadersFallbackOff(self, key) ==
    LET token == IF Truthy(key) /\ key[1] # self.api_key THEN key[1] ELSE <<>>
        headers == "Content-Type" :> AppJson
    IN  IF token # <<>>
        THEN ("Authorization" :> (BearerPrefix \o token)) @@ headers
        ELSE headers

\* OpenWebUIClient._get_headers(api_key)
GetHeaders(self, key) ==
    LET token == IF Truthy(key) THEN key[1] ELSE self.api_key
        headers == "Content-Type" :> AppJson
    IN  IF token # <<>>
        THEN ("Authorization" :> (BearerPrefix \o token)) @@ headers
        ELSE headers

\* response.raise_for_status(): httpx raises HTTPStatusError unless 2xx
IsSuccess(status) == 200 <= status /\ status <= 299
RaisesForStatus(resp) == ~IsSuccess(resp.status)

\* response.json() on the small JSON texts of the model: an object with one
\* string member, {"k":"v"}, decodes to the dict {k: v}; other text does not parse
Quotes(b) == {i \in 1..Len(b) : b[i] = "\""}
IsJson(b) ==
    /\ Len(b) >= 7
    /\ b[1] = "{" /\ b[Len(b)] = "}"
    /\ Cardinality(Quotes(b)) = 4
    /\ 2 \in Quotes(b) /\ (Len(b) - 1) \in Quotes(b)
    /\ \E q \in Quotes(b) : q > 2 /\ b[q + 1] = ":" /\ (q + 2) \in Quotes(b) /\ q + 2 < Len(b) - 1
JsonLoads(b) ==
    LET q == CHOOSE q \in Quotes(b) : q > 2 /\ b[q + 1] = ":"
    IN  {<<SubSeq(b, 3, q - 1), SubSeq(b, q + 3, Len(b) - 2)>>}

\* request without the call of raise_for_status
Decode_ResponseNoRaise(resp) ==
    IF StartsWith(IF resp.ctype = None THEN <<>> ELSE resp.ctype[1], AppJson)
    THEN IF IsJson(resp.body)
         THEN Returned(JsonLoads(resp.body))
         ELSE Raised("JSONDecodeError", 0, <<>>)
    ELSE Returned({<<TextKey, resp.body>>})

\* request with the content type compared for equality instead of by prefix
Decode_ResponseExactType(resp) ==
    IF RaisesForStatus(resp)
    THEN Raised("HTTPStatusError", resp.status, resp.body)
    ELSE IF resp.ctype = Some(AppJson)
         THEN IF IsJson(resp.body)
              THEN Returned(JsonLoads(resp.body))
              ELSE Raised("JSONDecodeError", 0, <<>>)
         ELSE Returned({<<TextKey, resp.body>>})

\* the tail of OpenWebUIClient.request, from raise_for_status on
Decode_Response(resp) ==
    IF RaisesForStatus(resp)
    THEN Raised("HTTPStatusError", resp.status, resp.body)
    ELSE IF StartsWith(IF resp.ctype = None THEN <<>> ELSE resp.ctype[1], AppJson)
         THEN IF IsJson(resp.body)
              THEN Returned(JsonLoads(resp.body))
              ELSE Raised("JSONDecodeError", 0, <<>>)
         ELSE Returned({<<TextKey, resp.body>>})

\* what a client method asks of request: get_current_user, get_user and
\* update_user_role, with the arguments of the tool call
ArgOf(args, name) == args[CHOOSE i \in 1..Len(args) : args[i][1] = name][2].val
ClientMethod(call) ==
    CASE call.name = "get_user" ->
           [method |-> "GET", path |-> UsersPath \o ArgOf(call.args, "user_id"), json |-> {}]
      [] call.name = "update_user_role" ->
           [method |-> "POST",
            path |-> UsersPath \o ArgOf(call.args, "user_id") \o UpdateRoleSuffix,
            json |-> {<<RoleKey, ArgOf(call.args, "role")>>}]
      [] OTHER -> [method |-> "GET", path |-> AuthsPath, json |-> {}]

\* OpenWebUIClient.request up to the await: the request that goes out
BuildRequest(self, call, key) ==
    [method |-> ClientMethod(call).method,
     url |-> self.base_url \o ClientMethod(call).path,
     headers |-> GetHeaders(self, key),
     json |-> ClientMethod(call).json]

-----------------------------------------------------------------------------
(* main.py *)

\* a field that is only required to be present, whatever its type
HasField(args, name) == \E i \in 1..Len(args) : args[i][1] = name

\* a field that is declared `name: str = Field(...)`: required, a string
HasStr(args, name) == \E i \in 1..Len(args) : args[i][1] = name /\ args[i][2].type = "str"

\* UserIdParam and UserRoleParam: whether pydantic accepts the arguments
UserIdParamValid(args) == HasStr(args, "user_id")
UserRoleParamValid(args) == HasStr(args, "user_id") /\ HasStr(args, "role")
ParamsValid(name, args) ==
    CASE name = "get_user" -> UserIdParamValid(args)
      [] name = "update_user_role" -> UserRoleParamValid(args)
      [] OTHER -> TRUE

\* dict(scope.get("headers", [])).get(b"authorization", b""): the last entry
\* of that name wins, b"" when there is none
HeadersGet(headers, name, default) ==
    LET at == {i \in 1..Len(headers) : headers[i][1] = name}
    IN  IF at = {} THEN default
        ELSE headers[CHOOSE i \in at : \A j \in at : j <= i][2]

\* get_user_token with the environment consulted before the context
GetUserTokenEnvFirst(c) ==
    IF Truthy(Getenv("OPENWEBUI_API_KEY")) THEN Getenv("OPENWEBUI_API_KEY")
    ELSE _current_user_token[c]

\* get_user_token(), read in context c
GetUserToken(c) ==
    IF Truthy(_current_user_token[c]) THEN _current_user_token[c]
    ELSE Getenv("OPENWEBUI_API_KEY")

\* the adapter with the prefix cut one character short (auth_header[6:])
AuthMiddlewareCallSlice6(sc, cur) ==
    IF sc.type = "http"
    THEN LET raw == HeadersGet(sc.headers, "authorization", <<>>)
         IN  IF ~DecodeOk(raw)
             THEN [raised |-> TRUE, token |-> cur]
             ELSE IF StartsWith(Decode(raw), BearerPrefix)
                  THEN [raised |-> FALSE, token |-> Some(SliceFrom(Decode(raw), 6))]
                  ELSE [raised |-> FALSE, token |-> cur]
    ELSE [raised |-> FALSE, token |-> cur]

\* the adapter clearing the variable when the request has no Bearer header
AuthMiddlewareCallReset(sc, cur) ==
    IF sc.type = "http"
    THEN LET raw == HeadersGet(sc.headers, "authorization", <<>>)
         IN  IF ~DecodeOk(raw)
             THEN [raised |-> TRUE, token |-> cur]
             ELSE IF StartsWith(Decode(raw), BearerPrefix)
                  THEN [raised |-> FALSE, token |-> Some(SliceFrom(Decode(raw), 7))]
                  ELSE [raised |-> FALSE, token |-> None]
    ELSE [raised |-> FALSE, token |-> cur]

\* AuthMiddleware.__call__ up to the await of the wrapped app, for scope sc in a
\* context whose variable holds cur: whether decode() raised, and the value
\* the variable holds when control is forwarded
AuthMiddlewareCall(sc, cur) ==
    IF sc.type = "http"
    THEN LET raw == HeadersGet(sc.headers, "authorization", <<>>)
         IN  IF ~DecodeOk(raw)
             THEN [raised |-> TRUE, token |-> cur]
             ELSE IF StartsWith(Decode(raw), BearerPrefix)
                  THEN [raised |-> FALSE, token |-> Some(SliceFrom(Decode(raw), 7))]
                  ELSE [raised |-> FALSE, token |-> cur]
    ELSE [raised |-> FALSE, token |-> cur]

\* get_client() that builds a client on every call
GetClientAlwaysNew ==
    LET c == ClientInit(None, None)
    IN  [ok |-> c.ok, client |-> [base_url |-> c.base_url, api_key |-> c.api_key],
         created |-> c.ok]

\* get_client(): the stored client, or a new OpenWebUIClient()
GetClient ==
    IF _client # None
    THEN [ok |-> TRUE, client |-> _client[1], created |-> FALSE]
    ELSE LET c == ClientInit(None, None)
         IN  [ok |-> c.ok, client |-> [base_url |-> c.base_url, api_key |-> c.api_key],
              created |-> c.ok]

\* int(s), for the strings the model draws: whether it parses (Python raises
\* ValueError when it does not)
Digits == {"0", "1", "2", "3", "4", "5", "6", "7", "8", "9"}
IsInt(s) == s # <<>> /\ \A i \in 1..Len(s) : s[i] \in Digits

\* main() from line 762 on: the port is parsed, then the transport chosen
MainServe ==
    IF ~IsInt(GetenvDefault("MCP_HTTP_PORT", DefaultPort))
    THEN [pc |-> "crashed", code |-> Some(1), diag |-> <<"ValueError: invalid literal for int() with base 10">>]
    ELSE LET transport == Lower(GetenvDefault("MCP_TRANSPORT", StdioName))
         IN  [pc |-> IF transport = HttpName THEN "http" ELSE "stdio",
              code |-> None, diag |-> <<>>]

\* main() without the test of OPENWEBUI_URL
MainResultNoCheck == MainServe

\* main() serving over http whatever MCP_TRANSPORT says
MainResultAlwaysHttp ==
    IF ~Truthy(Getenv("OPENWEBUI_URL"))
    THEN [pc |-> "exited", code |-> Some(1), diag |-> <<"ERROR: OPENWEBUI_URL environment variable is required">>]
    ELSE IF MainServe.pc = "crashed" THEN MainServe
    ELSE [pc |-> "http", code |-> None, diag |-> <<>>]

\* main(): the state it leaves the process in
MainResult ==
    IF ~Truthy(Getenv("OPENWEBUI_URL"))
    THEN [pc |-> "exited", code |-> Some(1), diag |-> <<"ERROR: OPENWEBUI_URL environment variable is required">>]
    ELSE MainServe

-----------------------------------------------------------------------------
(* The state machine *)

Init ==
    /\ env \in Envs
    /\ main_pc = "start"
    /\ exit_code = None
    /\ stderr = <<>>
    /\ _client = None
    /\ constructed = 0
    /\ _current_user_token = [c \in Contexts |-> None]
    /\ pc = [r \in Invocations |-> "idle"]
    /\ scope = [r \in Invocations |-> NoScope]
    /\ kind = [r \in Invocations |-> "none"]
    /\ api_key = [r \in Invocations |-> None]
    /\ sent = [r \in Invocations |-> <<>>]
    /\ response = [r \in Invocations |-> NoResponse]
    /\ outcome = [r \in Invocations |-> NoOutcome]
    /\ forwards = [r \in Invocations |-> 0]
    /\ tool = [r \in Invocations |-> NoCall]
    /\ elapsed = [r \in Invocations |-> 0]
    /\ waited = [r \in Invocations |-> 0]

\* main() runs to the point where it serves, or exits
Main ==
    /\ main_pc = "start"
    /\ main_pc' = MainResult.pc
    /\ exit_code' = MainResult.code
    /\ stderr' = MainResult.diag
    /\ UNCHANGED <<env, _client, constructed, _current_user_token, pc, scope, kind,
                   api_key, sent, response, outcome, forwards>>
    /\ UNCHANGED <<tool, elapsed, waited>>

\* the app served without the adapter around it: a unit of work reaches the
\* handler as it arrives
AcceptUnwrapped(r, sc) ==
    /\ main_pc = "http"
    /\ pc[r] = "idle"
    /\ pc' = [pc EXCEPT ![r] = "handler"]
    /\ scope' = [scope EXCEPT ![r] = sc]
    /\ _current_user_token' = [_current_user_token EXCEPT ![ContextOf(r)] = _current_user_token[Base]]
    /\ UNCHANGED <<env, main_pc, exit_code, stderr, _client, constructed, kind,
                   api_key, sent, response, outcome, forwards, tool, elapsed, waited>>

\* uvicorn starts a task for an inbound unit of work; the task runs in a copy
\* of the server's context, and the wrapped app runs the tool handler inside
\* that task
Accept(r, sc) ==
    /\ main_pc = "http"
    /\ pc[r] = "idle"
    /\ pc' = [pc EXCEPT ![r] = "accepted"]
    /\ scope' = [scope EXCEPT ![r] = sc]
    /\ _current_user_token' = [_current_user_token EXCEPT ![ContextOf(r)] = _current_user_token[Base]]
    /\ UNCHANGED <<env, main_pc, exit_code, stderr, _client, constructed, kind,
                   api_key, sent, response, outcome, forwards>>
    /\ UNCHANGED <<tool, elapsed, waited>>

\* AuthMiddleware.__call__ entered in a context whose variable holds t: the
\* adapter as a callable, whatever the caller's context is
AcceptIn(r, sc, t) ==
    /\ main_pc = "http"
    /\ pc[r] = "idle"
    /\ pc' = [pc EXCEPT ![r] = "accepted"]
    /\ scope' = [scope EXCEPT ![r] = sc]
    /\ _current_user_token' = [_current_user_token EXCEPT ![ContextOf(r)] = t]
    /\ UNCHANGED <<env, main_pc, exit_code, stderr, _client, constructed, kind,
                   api_key, sent, response, outcome, forwards, tool, elapsed, waited>>

\* mcp.run(): a message on the stdio channel reaches the handler directly
AcceptStdio(r) ==
    /\ main_pc = "stdio"
    /\ pc[r] = "idle"
    /\ pc' = [pc EXCEPT ![r] = "handler"]
    /\ scope' = [scope EXCEPT ![r] = NoScope]
    /\ _current_user_token' = [_current_user_token EXCEPT ![ContextOf(r)] = _current_user_token[Base]]
    /\ UNCHANGED <<env, main_pc, exit_code, stderr, _client, constructed, kind,
                   api_key, sent, response, outcome, forwards>>
    /\ UNCHANGED <<tool, elapsed, waited>>

\* the adapter keeping the token in a module global, which every later task
\* starts from, instead of a context variable
MiddlewareGlobal(r) ==
    /\ pc[r] = "accepted"
    /\ LET m == AuthMiddlewareCall(scope[r], _current_user_token[ContextOf(r)])
       IN  /\ _current_user_token' = [_current_user_token EXCEPT ![ContextOf(r)] = m.token,
                                                                 ![Base] = m.token]
           /\ IF m.raised
              THEN /\ pc' = [pc EXCEPT ![r] = "done"]
                   /\ outcome' = [outcome EXCEPT ![r] = Raised("UnicodeDecodeError", 0, <<>>)]
                   /\ UNCHANGED forwards
              ELSE /\ pc' = [pc EXCEPT ![r] = "handler"]
                   /\ forwards' = [forwards EXCEPT ![r] = @ + 1]
                   /\ UNCHANGED outcome
    /\ UNCHANGED <<env, main_pc, exit_code, stderr, _client, constructed, scope, kind,
                   api_key, sent, response, tool, elapsed, waited>>

\* AuthMiddleware.__call__
Middleware(r) ==
    /\ pc[r] = "accepted"
    /\ LET m == AuthMiddlewareCall(scope[r], _current_user_token[ContextOf(r)])
       IN  /\ _current_user_token' = [_current_user_token EXCEPT ![ContextOf(r)] = m.token]
           /\ IF m.raised
              THEN /\ pc' = [pc EXCEPT ![r] = "done"]
                   /\ outcome' = [outcome EXCEPT ![r] = Raised("UnicodeDecodeError", 0, <<>>)]
                   /\ UNCHANGED forwards
              ELSE /\ pc' = [pc EXCEPT ![r] = "handler"]
                   /\ forwards' = [forwards EXCEPT ![r] = @ + 1]
                   /\ UNCHANGED outcome
    /\ UNCHANGED <<env, main_pc, exit_code, stderr, _client, constructed, scope, kind,
                   api_key, sent, response>>
    /\ UNCHANGED <<tool, elapsed, waited>>

\* the wrapped app serves the unit of work without running a tool
NoTool(r) ==
    /\ pc[r] = "handler"
    /\ pc' = [pc EXCEPT ![r] = "done"]
    /\ outcome' = [outcome EXCEPT ![r] = Returned({})]
    /\ UNCHANGED <<env, main_pc, exit_code, stderr, _client, constructed,
                   _current_user_token, scope, kind, api_key, sent, response, forwards>>
    /\ UNCHANGED <<tool, elapsed, waited>>

\* a tool that takes parameters is invoked: the arguments are validated
\* against its parameter model before the handler body runs
Invoke(r, name, args) ==
    /\ pc[r] = "handler"
    /\ scope[r].type # "lifespan"
    /\ tool' = [tool EXCEPT ![r] = [name |-> name, args |-> args]]
    /\ IF ParamsValid(name, args)
       THEN /\ pc' = [pc EXCEPT ![r] = "tool"]
            /\ UNCHANGED outcome
       ELSE /\ pc' = [pc EXCEPT ![r] = "done"]
            /\ outcome' = [outcome EXCEPT ![r] = Raised("ValidationError", 0, <<>>)]
    /\ UNCHANGED <<env, main_pc, exit_code, stderr, _client, constructed,
                   _current_user_token, scope, kind, api_key, sent, response, forwards,
                   elapsed, waited>>

\* a tool handler starts: get_client(); a unit of work that comes straight
\* from the adapter runs get_current_user, which takes no parameters
HandlerGetClient(r) ==
    /\ pc[r] \in {"handler", "tool"}
    /\ scope[r].type # "lifespan"
    /\ tool' = IF pc[r] = "handler"
               THEN [tool EXCEPT ![r] = [name |-> "get_current_user", args |-> <<>>]]
               ELSE tool
    /\ UNCHANGED <<elapsed, waited>>
    /\ IF GetClient.ok
       THEN /\ pc' = [pc EXCEPT ![r] = "client"]
            /\ _client' = Some(GetClient.client)
            /\ constructed' = IF GetClient.created THEN constructed + 1 ELSE constructed
            /\ UNCHANGED outcome
       ELSE /\ pc' = [pc EXCEPT ![r] = "done"]
            /\ outcome' = [outcome EXCEPT ![r] = Raised("ValueError", 0, <<>>)]
            /\ UNCHANGED <<_client, constructed>>
    /\ UNCHANGED <<env, main_pc, exit_code, stderr, _current_user_token, scope, kind,
                   api_key, sent, response, forwards>>

\* the resolved token kept in one place that all calls read, not in a local
\* of the handler
ToolResolveShared(r) ==
    /\ pc[r] = "client"
    /\ pc' = [pc EXCEPT ![r] = "resolved"]
    /\ kind' = [kind EXCEPT ![r] = "tool"]
    /\ api_key' = [q \in Invocations |-> GetUserToken(ContextOf(r))]
    /\ UNCHANGED <<env, main_pc, exit_code, stderr, _client, constructed,
                   _current_user_token, scope, sent, response, outcome, forwards,
                   tool, elapsed, waited>>

\* the tool handler evaluates its argument get_user_token()
ToolResolve(r) ==
    /\ pc[r] = "client"
    /\ pc' = [pc EXCEPT ![r] = "resolved"]
    /\ kind' = [kind EXCEPT ![r] = "tool"]
    /\ api_key' = [api_key EXCEPT ![r] = GetUserToken(ContextOf(r))]
    /\ UNCHANGED <<env, main_pc, exit_code, stderr, _client, constructed,
                   _current_user_token, scope, sent, response, outcome, forwards>>
    /\ UNCHANGED <<tool, elapsed, waited>>

\* a direct call whose api_key is stored on the client as its new fallback
DirectResolveStoresKey(r, k) ==
    /\ pc[r] = "client"
    /\ pc' = [pc EXCEPT ![r] = "resolved"]
    /\ kind' = [kind EXCEPT ![r] = "direct"]
    /\ api_key' = [api_key EXCEPT ![r] = k]
    /\ _client' = IF Truthy(k) THEN Some([_client[1] EXCEPT !.api_key = k[1]]) ELSE _client
    /\ UNCHANGED <<env, main_pc, exit_code, stderr, constructed,
                   _current_user_token, scope, sent, response, outcome, forwards,
                   tool, elapsed, waited>>

\* a caller of the dispatcher passes an api_key of its own
DirectResolve(r, k) ==
    /\ pc[r] = "client"
    /\ pc' = [pc EXCEPT ![r] = "resolved"]
    /\ kind' = [kind EXCEPT ![r] = "direct"]
    /\ api_key' = [api_key EXCEPT ![r] = k]
    /\ UNCHANGED <<env, main_pc, exit_code, stderr, _client, constructed,
                   _current_user_token, scope, sent, response, outcome, forwards>>
    /\ UNCHANGED <<tool, elapsed, waited>>

\* the request sent without awaiting it: the caller has a result at once
RequestFireAndForget(r) ==
    /\ pc[r] = "resolved"
    /\ pc' = [pc EXCEPT ![r] = "done"]
    /\ sent' = [sent EXCEPT ![r] = Append(@, BuildRequest(_client[1], tool[r], api_key[r]))]
    /\ outcome' = [outcome EXCEPT ![r] = Returned({})]
    /\ UNCHANGED <<env, main_pc, exit_code, stderr, _client, constructed,
                   _current_user_token, scope, kind, api_key, response, forwards,
                   tool, elapsed, waited>>

\* the request sent under a lock that one call holds at a time
RequestSerialized(r) ==
    /\ pc[r] = "resolved"
    /\ \A q \in Invocations \ {r} : pc[q] # "inflight"
    /\ pc' = [pc EXCEPT ![r] = "inflight"]
    /\ sent' = [sent EXCEPT ![r] = Append(@, BuildRequest(_client[1], tool[r], api_key[r]))]
    /\ UNCHANGED <<env, main_pc, exit_code, stderr, _client, constructed,
                   _current_user_token, scope, kind, api_key, response, outcome, forwards,
                   tool, elapsed, waited>>

\* OpenWebUIClient.request up to the await: the request goes out
Request(r) ==
    /\ pc[r] = "resolved"
    /\ pc' = [pc EXCEPT ![r] = "inflight"]
    /\ sent' = [sent EXCEPT ![r] = Append(@, BuildRequest(_client[1], tool[r], api_key[r]))]
    /\ UNCHANGED <<env, main_pc, exit_code, stderr, _client, constructed,
                   _current_user_token, scope, kind, api_key, response, outcome, forwards,
                   tool, elapsed, waited>>

\* the backend answers: raise_for_status and the decoding of the body
Respond(r, resp) ==
    /\ pc[r] = "inflight"
    /\ pc' = [pc EXCEPT ![r] = "done"]
    /\ response' = [response EXCEPT ![r] = resp]
    /\ outcome' = [outcome EXCEPT ![r] = Decode_Response(resp)]
    /\ elapsed' = [elapsed EXCEPT ![r] = 0]
    /\ waited' = [waited EXCEPT ![r] = 0]
    /\ UNCHANGED <<env, main_pc, exit_code, stderr, _client, constructed,
                   _current_user_token, scope, kind, api_key, sent, forwards, tool>>

\* a network failure answered by sending the request once more
TransportFailRetry(r, e) ==
    /\ pc[r] = "inflight"
    /\ IF Len(sent[r]) < 2
       THEN /\ sent' = [sent EXCEPT ![r] = Append(@, @[1])]
            /\ UNCHANGED <<pc, outcome>>
       ELSE /\ pc' = [pc EXCEPT ![r] = "done"]
            /\ outcome' = [outcome EXCEPT ![r] = Raised(e, 0, <<>>)]
            /\ UNCHANGED sent
    /\ UNCHANGED <<env, main_pc, exit_code, stderr, _client, constructed,
                   _current_user_token, scope, kind, api_key, response, forwards, tool,
                   elapsed, waited>>

\* the call fails in the network, or the 60 second timeout of the call expires
TransportFail(r, e) ==
    /\ pc[r] = "inflight"
    /\ pc' = [pc EXCEPT ![r] = "done"]
    /\ outcome' = [outcome EXCEPT ![r] = Raised(e, 0, <<>>)]
    /\ elapsed' = [elapsed EXCEPT ![r] = 0]
    /\ waited' = [waited EXCEPT ![r] = 0]
    /\ UNCHANGED <<env, main_pc, exit_code, stderr, _client, constructed,
                   _current_user_token, scope, kind, api_key, sent, response, forwards, tool>>

\* a second passes while the call waits for the backend; at the timeout the
\* wait ends, so no further second passes in it
Tick(r) ==
    /\ pc[r] = "inflight"
    /\ waited[r] < TimeoutSeconds
    /\ waited' = [waited EXCEPT ![r] = @ + 1]
    /\ elapsed' = [elapsed EXCEPT ![r] = IF @ <= TimeoutSeconds THEN @ + 1 ELSE @]
    /\ UNCHANGED <<env, main_pc, exit_code, stderr, _client, constructed,
                   _current_user_token, pc, scope, kind, api_key, sent, response, outcome,
                   forwards, tool>>

\* the backend sends a part of its response: httpx.AsyncClient(timeout=60.0)
\* bounds each wait for data, and the wait starts anew
Drip(r) ==
    /\ pc[r] = "inflight"
    /\ waited[r] > 0
    /\ waited' = [waited EXCEPT ![r] = 0]
    /\ UNCHANGED <<env, main_pc, exit_code, stderr, _client, constructed,
                   _current_user_token, pc, scope, kind, api_key, sent, response, outcome,
                   forwards, tool, elapsed>>

\* no data arrived for the whole timeout: httpx raises ReadTimeout
Timeout(r) ==
    /\ pc[r] = "inflight"
    /\ waited[r] = TimeoutSeconds
    /\ pc' = [pc EXCEPT ![r] = "done"]
    /\ outcome' = [outcome EXCEPT ![r] = Raised("ReadTimeout", 0, <<>>)]
    /\ elapsed' = [elapsed EXCEPT ![r] = 0]
    /\ waited' = [waited EXCEPT ![r] = 0]
    /\ UNCHANGED <<env, main_pc, exit_code, stderr, _client, constructed,
                   _current_user_token, scope, kind, api_key, sent, response, forwards, tool>>

\* the task of a finished unit of work ends and its context is discarded
Release(r) ==
    /\ pc[r] = "done"
    /\ pc' = [pc EXCEPT ![r] = "idle"]
    /\ scope' = [scope EXCEPT ![r] = NoScope]
    /\ kind' = [kind EXCEPT ![r] = "none"]
    /\ api_key' = [api_key EXCEPT ![r] = None]
    /\ sent' = [sent EXCEPT ![r] = <<>>]
    /\ response' = [response EXCEPT ![r] = NoResponse]
    /\ outcome' = [outcome EXCEPT ![r] = NoOutcome]
    /\ forwards' = [forwards EXCEPT ![r] = 0]
    /\ tool' = [tool EXCEPT ![r] = NoCall]
    /\ _current_user_token' = [_current_user_token EXCEPT ![ContextOf(r)] = None]
    /\ UNCHANGED <<env, main_pc, exit_code, stderr, _client, constructed, elapsed, waited>>

TransportErrors == {"ConnectError", "ReadTimeout"}

\* The server as main() runs it: concurrent units of work, tool handlers
Next ==
    \/ Main
    \/ \E r \in Invocations, sc \in ConcurrentScopes : Accept(r, sc)
    \/ \E r \in Invocations : AcceptStdio(r)
    \/ \E r \in Invocations : Middleware(r)
    \/ \E r \in Invocations : NoTool(r)
    \/ \E r \in Invocations : HandlerGetClient(r)
    \/ \E r \in Invocations : ToolResolve(r)
    \/ \E r \in Invocations : Request(r)
    \/ \E r \in Invocations, resp \in FewResponses : Respond(r, resp)
    \/ \E r \in Invocations : TransportFail(r, "ReadTimeout")
    \/ \E r \in Invocations : Release(r)

\* concurrent units of work are run in fewer environments: one URL of each
\* kind (unset, empty, empty once stripped, usable), every key, the default
\* transport and http, the port left unset
ConcurrentEnvs ==
    { e \in Envs : /\ e.OPENWEBUI_URL \in {None, Some(<<>>), Some(<<"/">>), Some(<<"h", "/">>)}
                   /\ e.MCP_TRANSPORT \in {None, Some(<<"H", "T", "T", "P">>)}
                   /\ e.MCP_HTTP_PORT = None }
InitConcurrent == Init /\ env \in ConcurrentEnvs

Spec == InitConcurrent /\ [][Next]_vars

\* The dispatcher under one caller at a time: tool handlers and direct calls
\* with an api_key of the caller's choice, against every backend response
NextDispatch ==
    \/ Main
    \/ \E sc \in Scopes : Accept(1, sc)
    \/ AcceptStdio(1)
    \/ Middleware(1)
    \/ NoTool(1)
    \/ \E name \in ParamTools, args \in ArgLists : Invoke(1, name, args)
    \/ HandlerGetClient(1)
    \/ ToolResolve(1)
    \/ \E k \in ExplicitKeys : DirectResolve(1, k)
    \/ Request(1)
    \/ \E resp \in AllResponses : Respond(1, resp)
    \/ \E e \in TransportErrors : TransportFail(1, e)
    \/ Release(1)

SpecDispatch == Init /\ [][NextDispatch]_vars

\* One tool call at a time with the time its backend call takes: seconds
\* pass, the backend sends data or stays silent, the timeout fires
NextTimed ==
    \/ Main
    \/ \E sc \in ConcurrentScopes : Accept(1, sc)
    \/ AcceptStdio(1)
    \/ Middleware(1)
    \/ HandlerGetClient(1)
    \/ ToolResolve(1)
    \/ Request(1)
    \/ Tick(1)
    \/ Drip(1)
    \/ Timeout(1)
    \/ \E resp \in FewResponses : Respond(1, resp)
    \/ Release(1)

SpecTimed == Init /\ [][NextTimed]_vars /\ WF_vars(Tick(1)) /\ WF_vars(Timeout(1))

\* The adapter by itself: one unit of work at a time, every scope, entered
\* with the context variable unset or already set
NextAdapter ==
    \/ Main
    \/ \E sc \in Scopes, t \in EntryValues : AcceptIn(1, sc, t)
    \/ Middleware(1)
    \/ NoTool(1)
    \/ HandlerGetClient(1)
    \/ ToolResolve(1)
    \/ Request(1)
    \/ \E resp \in FewResponses : Respond(1, resp)
    \/ Release(1)

SpecAdapter == Init /\ [][NextAdapter]_vars

-----------------------------------------------------------------------------
(* Properties.  In all of them a credential is a non-empty token: the code's  *)
(* truthiness tests take the empty string for "no credential".                *)

\* the tokens requests arrive with
Tokens == { SliceFrom(v, 7) : v \in {w \in AuthValues : StartsWith(w, BearerPrefix)} }

\* unit of work r arrived over http with the header Authorization: Bearer t
ArrivedWith(r, t) ==
    /\ scope[r].type = "http"
    /\ \E i \in 1..Len(scope[r].headers) :
          scope[r].headers[i] = <<"authorization", BearerPrefix \o t>>

\* unit of work r arrived over http without any Authorization header
ArrivedBare(r) ==
    /\ scope[r].type = "http"
    /\ \A i \in 1..Len(scope[r].headers) : scope[r].headers[i][1] # "authorization"

\* the adapter has forwarded r to the wrapped app
Forwarded(r) == pc[r] # "idle" /\ forwards[r] = 1

FallbackKey == GetenvDefault("OPENWEBUI_API_KEY", <<>>)

\* C1: of two units of work that arrived with distinct Bearer tokens and are
\* handled concurrently, every backend request issued for one carries its own
\* token in the Authorization header, never the other's.
C1_Isolation ==
    \A a, b \in Invocations : \A ta, tb \in Tokens :
        ( /\ a # b /\ ta # tb /\ ta # <<>> /\ tb # <<>>
          /\ ArrivedWith(a, ta) /\ ArrivedWith(b, tb) )
        => \A i \in 1..Len(sent[a]) :
              /\ "Authorization" \in DOMAIN sent[a][i].headers
              /\ sent[a][i].headers["Authorization"] = BearerPrefix \o ta
              /\ sent[a][i].headers["Authorization"] # BearerPrefix \o tb

\* two units of work with distinct tokens have their backend calls in flight
\* at the same time
C1_Witness ==
    /\ ArrivedWith(1, <<"a">>) /\ ArrivedWith(2, <<"b">>)
    /\ pc[1] = "inflight" /\ pc[2] = "inflight"

\* C2: a dispatcher call that is passed an explicit credential sends exactly
\* that credential in the Authorization header, whatever the context variable
\* holds and whatever the fallback credential is.
C2_ExplicitWins ==
    \A r \in Invocations :
        (pc[r] \in {"inflight", "done"} /\ Truthy(api_key[r]))
        => /\ Len(sent[r]) = 1
           /\ "Authorization" \in DOMAIN sent[r][1].headers
           /\ sent[r][1].headers["Authorization"] = BearerPrefix \o api_key[r][1]

\* a direct call with explicit credential c went out while the context holds
\* a and the fallback is k
C2_Witness ==
    /\ kind[1] = "direct" /\ pc[1] = "inflight"
    /\ api_key[1] = Some(<<"c">>)
    /\ _current_user_token[ContextOf(1)] = Some(<<"a">>)
    /\ FallbackKey = <<"k">>

\* C3: without an explicit credential, resolution returns the credential the
\* adapter put in this unit of work's context, and the process-wide fallback
\* only when the context holds none; the fallback reaches the wire only then.
C3_Resolution ==
    \A r \in Invocations :
        (kind[r] = "tool" /\ pc[r] \in {"resolved", "inflight", "done"})
        => /\ \A t \in Tokens \ {<<>>} : ArrivedWith(r, t) => api_key[r] = Some(t)
           /\ (~ \E t \in Tokens \ {<<>>} : ArrivedWith(r, t))
                 => api_key[r] = Getenv("OPENWEBUI_API_KEY")
           /\ \A i \in 1..Len(sent[r]) :
                 ( /\ FallbackKey # <<>>
                   /\ "Authorization" \in DOMAIN sent[r][i].headers
                   /\ sent[r][i].headers["Authorization"] = BearerPrefix \o FallbackKey )
                 => ~ \E t \in Tokens \ {<<>>} : ArrivedWith(r, t)

\* a tool call resolved to the token of its own request although a fallback
\* credential is configured
C3_Witness ==
    /\ kind[1] = "tool" /\ pc[1] = "inflight"
    /\ ArrivedWith(1, <<"a">>)
    /\ api_key[1] = Some(<<"a">>)
    /\ FallbackKey = <<"k">>

\* C4: once the adapter has forwarded an http request, the context variable
\* read in that request holds the text after "Bearer " of its Authorization
\* header, and None when the request has no Authorization header, whatever
\* other requests carried.
C4_AmbientContext ==
    \A r \in Invocations :
        Forwarded(r)
        => /\ \A t \in Tokens : ArrivedWith(r, t) => _current_user_token[ContextOf(r)] = Some(t)
           /\ ArrivedBare(r) => _current_user_token[ContextOf(r)] = None

\* a request without the header is in its handler while another request's
\* context holds a token
C4_Witness ==
    /\ ArrivedBare(1) /\ Forwarded(1) /\ pc[1] = "client"
    /\ ArrivedWith(2, <<"a">>) /\ Forwarded(2) /\ pc[2] = "inflight"

\* unit of work r arrived over http with an Authorization header that does
\* not start with "Bearer "
ArrivedMalformed(r) ==
    /\ scope[r].type = "http"
    /\ \E i \in 1..Len(scope[r].headers) :
          /\ scope[r].headers[i][1] = "authorization"
          /\ ~StartsWith(scope[r].headers[i][2], BearerPrefix)

\* C5: a request whose Authorization header does not start with "Bearer " is
\* handled as one without a credential: once the adapter has dealt with it,
\* the context variable is unwritten and the request has been forwarded to
\* the wrapped app.
C5_MalformedForwarded ==
    \A r \in Invocations :
        (ArrivedMalformed(r) /\ pc[r] \notin {"idle", "accepted"})
        => /\ forwards[r] = 1
           /\ _current_user_token[ContextOf(r)] = None

\* C6: without a base URL main() stops with a diagnostic and a non-zero exit
\* status; no transport starts, no unit of work is accepted and no backend
\* request is issued.
C6_FailFast ==
    ~Truthy(Getenv("OPENWEBUI_URL"))
    => /\ main_pc \in {"start", "exited"}
       /\ main_pc = "exited" => (exit_code # None /\ exit_code[1] # 0 /\ stderr # <<>>)
       /\ \A r \in Invocations : pc[r] = "idle" /\ sent[r] = <<>>
       /\ _client = None

\* main() has run without a base URL
C6_Witness == Getenv("OPENWEBUI_URL") = Some(<<>>) /\ main_pc = "exited"

\* the credential a call resolves to: the explicit one of a direct call or the
\* context's of a tool call, else the fallback of the environment
ResolvedCredential(r) ==
    LET first == IF kind[r] = "direct" THEN api_key[r] ELSE _current_user_token[ContextOf(r)]
    IN  IF Truthy(first) THEN first[1] ELSE FallbackKey

\* C7: every backend request carries Content-Type: application/json, and an
\* Authorization header exactly when the credential resolved for the call is
\* present, its value then being "Bearer " followed by that credential.
C7_Headers ==
    \A r \in Invocations : \A i \in 1..Len(sent[r]) :
        LET h == sent[r][i].headers
        IN  /\ DOMAIN h \subseteq {"Content-Type", "Authorization"}
            /\ "Content-Type" \in DOMAIN h
            /\ h["Content-Type"] = AppJson
            /\ ("Authorization" \in DOMAIN h) <=> (ResolvedCredential(r) # <<>>)
            /\ ResolvedCredential(r) # <<>>
                  => h["Authorization"] = BearerPrefix \o ResolvedCredential(r)

\* a tool call went out with the token of its request
C7_Witness ==
    /\ kind[1] = "tool" /\ pc[1] = "inflight" /\ ArrivedWith(1, <<"b">>)
    /\ "Authorization" \in DOMAIN sent[1][1].headers

\* no explicit, ambient or fallback credential exists for r
NoCredential(r) ==
    /\ ~Truthy(api_key[r])
    /\ ~Truthy(_current_user_token[ContextOf(r)])
    /\ FallbackKey = <<>>

\* the caller of r received what the backend call produced
BackendOutcome(r) ==
    IF response[r] = NoResponse
    THEN outcome[r].kind = "raise" /\ outcome[r].exc \in TransportErrors
    ELSE IF response[r].status \in 200..299
         THEN outcome[r].kind = "return" \/ outcome[r].exc = "JSONDecodeError"
         ELSE outcome[r] = Raised("HTTPStatusError", response[r].status, response[r].body)

\* C8: a call for which no credential exists is not refused locally: exactly
\* one backend request goes out, without an Authorization header, and the
\* caller receives the outcome of that request.
C8_Unauthenticated ==
    \A r \in Invocations :
        (pc[r] = "done" /\ kind[r] # "none" /\ NoCredential(r))
        => /\ Len(sent[r]) = 1
           /\ "Authorization" \notin DOMAIN sent[r][1].headers
           /\ BackendOutcome(r)

\* a tool call without any credential ended with the backend's 401
C8_Witness ==
    /\ kind[1] = "tool" /\ pc[1] = "done" /\ NoCredential(1)
    /\ response[1].status = 401 /\ outcome[1].status = 401

\* the response declares a JSON content type, as the code tests it
DeclaresJson(resp) == resp.ctype # None /\ StartsWith(resp.ctype[1], AppJson)

\* C9 as stated: on every 2xx response the dispatcher returns, the decoded
\* JSON when the response declares JSON and {"text": body} otherwise.
C9_AlwaysReturns ==
    \A r \in Invocations :
        (pc[r] = "done" /\ response[r] # NoResponse /\ response[r].status \in 200..299)
        => /\ outcome[r].kind = "return"
           /\ IF DeclaresJson(response[r])
              THEN IsJson(response[r].body) /\ outcome[r].value = JsonLoads(response[r].body)
              ELSE outcome[r].value = {<<TextKey, response[r].body>>}

\* C9 amended: on a 2xx response that declares JSON the dispatcher returns the
\* decoded body when the body parses and raises a decode error when it does
\* not; on any other 2xx response it returns {"text": body}; whatever a call
\* returns is one of these two.
C9_Decoding ==
    \A r \in Invocations :
        /\ (pc[r] = "done" /\ response[r] # NoResponse /\ response[r].status \in 200..299)
           => IF DeclaresJson(response[r])
              THEN IF IsJson(response[r].body)
                   THEN outcome[r] = Returned(JsonLoads(response[r].body))
                   ELSE outcome[r].kind = "raise" /\ outcome[r].exc = "JSONDecodeError"
              ELSE outcome[r] = Returned({<<TextKey, response[r].body>>})
        /\ (pc[r] = "done" /\ kind[r] # "none" /\ outcome[r].kind = "return")
           => \/ DeclaresJson(response[r]) /\ outcome[r].value = JsonLoads(response[r].body)
              \/ outcome[r].value = {<<TextKey, response[r].body>>}

\* a body declared as "application/json; charset=utf-8" was decoded
C9_Witness ==
    /\ pc[1] = "done" /\ response[1].status = 200
    /\ response[1].ctype = Some(JsonCharset) /\ response[1].body = IdBody
    /\ outcome[1] = Returned({<< <<"i", "d">>, <<"x">> >>})

\* C10: a response whose status is neither 2xx nor 3xx yields no result: the
\* caller receives a failure that carries the status and the body of the
\* response as the backend sent them.
C10_ErrorSurfaced ==
    \A r \in Invocations :
        (pc[r] = "done" /\ response[r] # NoResponse /\ response[r].status \notin 200..399)
        => /\ outcome[r].kind = "raise"
           /\ outcome[r].exc = "HTTPStatusError"
           /\ outcome[r].status = response[r].status
           /\ outcome[r].body = response[r].body
           /\ outcome[r].value = {}

\* a 500 with a text body reached the caller as a failure
C10_Witness ==
    /\ pc[1] = "done" /\ response[1].status = 500 /\ response[1].body = OkBody
    /\ outcome[1] = Raised("HTTPStatusError", 500, OkBody)

\* the statuses a backend answers with, and the kind of failure the dispatcher
\* raises for a response of status st (nothing when it returns)
Statuses == { resp.status : resp \in AllResponses }
KindOfStatus(st) ==
    LET o == Decode_Response([status |-> st, ctype |-> None, body |-> <<>>])
    IN  IF o.kind = "raise" THEN {o.exc} ELSE {}
OtherFailureKinds(own) ==
    TransportErrors \cup UNION { KindOfStatus(st) : st \in Statuses \ own }

\* C11: a response with a 3xx status is a success: the dispatcher raises
\* nothing and returns the body, decoded as JSON when the response declares
\* JSON and as {"text": body} otherwise, as it does for a 2xx response.
C11_RedirectSucceeds ==
    \A r \in Invocations :
        (pc[r] = "done" /\ response[r] # NoResponse /\ response[r].status \in 300..399)
        => /\ outcome[r].kind = "return"
           /\ IF DeclaresJson(response[r])
              THEN outcome[r].value = JsonLoads(response[r].body)
              ELSE outcome[r].value = {<<TextKey, response[r].body>>}

\* C12: a 404 response reaches the caller as a failure of a kind of its own,
\* one that no other failure (another error status, a transport error) has,
\* and the failure carries the status and the body of the response.
C12_NotFoundKind ==
    \A r \in Invocations :
        (pc[r] = "done" /\ response[r] # NoResponse /\ response[r].status = 404)
        => /\ outcome[r].kind = "raise"
           /\ outcome[r].status = 404
           /\ outcome[r].body = response[r].body
           /\ outcome[r].exc \notin OtherFailureKinds({404})

\* C13: a 401 or 403 response reaches the caller as a failure of the kind of
\* authorization failures, which no other status or transport error has; the
\* failure carries the status and the body of the response, and the request
\* went out once only.
C13_AuthKind ==
    \A r \in Invocations :
        (pc[r] = "done" /\ response[r] # NoResponse /\ response[r].status \in {401, 403})
        => /\ outcome[r].kind = "raise"
           /\ outcome[r].status = response[r].status
           /\ outcome[r].body = response[r].body
           /\ outcome[r].exc \notin OtherFailureKinds({401, 403})
           /\ Len(sent[r]) = 1

\* C14: a dispatcher call issues one backend request, no more and no fewer,
\* whatever comes of it: nothing is sent before the call is issued, one
\* request is out while it is in flight, and a call that ended (with a result,
\* an error status, a network failure or a timeout) has sent exactly one
\* request and got its outcome from that request.
C14_OneRequest ==
    \A r \in Invocations :
        /\ pc[r] \in {"idle", "accepted", "handler", "tool", "client", "resolved"}
              => sent[r] = <<>>
        /\ pc[r] = "inflight" => Len(sent[r]) = 1
        /\ (pc[r] = "done" /\ kind[r] # "none") => Len(sent[r]) = 1 /\ BackendOutcome(r)
        /\ (pc[r] = "done" /\ kind[r] = "none") => sent[r] = <<>> /\ response[r] = NoResponse

\* a call whose connection failed ended after its one request
C14_Witness ==
    /\ pc[1] = "done" /\ kind[1] = "direct"
    /\ outcome[1] = Raised("ConnectError", 0, <<>>) /\ Len(sent[1]) = 1

\* C15: a call never stays in flight beyond the ceiling of 60 seconds: by
\* then it has ended, with the answer of the backend or with a timeout error.
C15_Ceiling ==
    \A r \in Invocations : pc[r] = "inflight" => elapsed[r] <= TimeoutSeconds

\* the fields an operation requires, and a call whose arguments lack one of
\* them or give it a value that is not a string
Required(name) ==
    CASE name = "get_user" -> {"user_id"}
      [] name = "update_user_role" -> {"user_id", "role"}
      [] OTHER -> {}
FailsSchema(call) ==
    \E f \in Required(call.name) :
        \A i \in 1..Len(call.args) : call.args[i][1] = f => call.args[i][2].type # "str"

\* C16: an invocation whose arguments lack a required field or give it a
\* value of the wrong type ends with a ValidationError, and no backend request
\* is made for it: it never reaches the client.
C16_ValidationFirst ==
    \A r \in Invocations :
        FailsSchema(tool[r])
        => /\ pc[r] = "done"
           /\ outcome[r] = Raised("ValidationError", 0, <<>>)
           /\ kind[r] = "none"
           /\ sent[r] = <<>>
           /\ response[r] = NoResponse

\* update_user_role was invoked with a number for the role and was refused
C16_Witness ==
    /\ tool[1].name = "update_user_role"
    /\ \E i \in 1..Len(tool[1].args) : tool[1].args[i] = <<"role", IntVal(<<"1">>)>>
    /\ pc[1] = "done" /\ outcome[1].exc = "ValidationError" /\ sent[1] = <<>>

\* the process is configured for the stdio transport (anything but http)
StdioConfigured == Lower(GetenvDefault("MCP_TRANSPORT", StdioName)) # HttpName

\* the credential of a call that can have none from a context: the explicit
\* one of a direct call, else the fallback of the environment
ExplicitOrFallback(r) ==
    IF kind[r] = "direct" /\ Truthy(api_key[r]) THEN api_key[r][1] ELSE FallbackKey

\* C17: with the stdio transport configured no context ever holds a
\* credential, whatever was invoked before, and every backend request carries
\* the explicit credential of its call, else the fallback of the environment,
\* else no Authorization header.
C17_StdioUnpopulated ==
    (StdioConfigured /\ main_pc # "start")
    => /\ \A c \in Contexts : _current_user_token[c] = None
       /\ \A r \in Invocations : \A i \in 1..Len(sent[r]) :
             LET h == sent[r][i].headers
             IN  /\ ("Authorization" \in DOMAIN h) <=> (ExplicitOrFallback(r) # <<>>)
                 /\ ExplicitOrFallback(r) # <<>>
                       => h["Authorization"] = BearerPrefix \o ExplicitOrFallback(r)

\* a tool call over stdio went out with the fallback key of the environment
C17_Witness ==
    /\ main_pc = "stdio" /\ pc[1] = "done" /\ kind[1] = "tool" /\ Len(sent[1]) = 1
    /\ FallbackKey # <<>>
    /\ sent[1][1].headers["Authorization"] = BearerPrefix \o FallbackKey

\* C18: over http a unit of work is in its handler, has resolved a credential
\* or has issued a backend request only after the adapter ran for it (once)
\* and handed it on, and the context then holds what its Authorization header
\* says: the Bearer token it arrived with, nothing if it arrived without.
C18_PopulatedFirst ==
    main_pc = "http"
    => \A r \in Invocations :
          (pc[r] \in {"handler", "tool", "client", "resolved", "inflight"}
             \/ kind[r] # "none" \/ sent[r] # <<>>)
          => /\ forwards[r] = 1
             /\ \A t \in Tokens : ArrivedWith(r, t) => _current_user_token[ContextOf(r)] = Some(t)
             /\ ArrivedBare(r) => _current_user_token[ContextOf(r)] = None

\* a backend call of a request that came through the adapter is in flight
C18_Witness ==
    /\ main_pc = "http" /\ pc[1] = "inflight" /\ forwards[1] = 1
    /\ ArrivedWith(1, <<"a">>) /\ _current_user_token[ContextOf(1)] = Some(<<"a">>)

\* C19: what a unit of work put into its context is gone with it: the context
\* new units of work start from never holds a credential, a unit of work that
\* was just accepted (or a slot that is free) sees none, and one further on
\* sees at most the token it arrived with itself.
C19_Released ==
    /\ _current_user_token[Base] = None
    /\ \A r \in Invocations :
          /\ pc[r] \in {"idle", "accepted"} => _current_user_token[ContextOf(r)] = None
          /\ _current_user_token[ContextOf(r)] # None
                => ArrivedWith(r, _current_user_token[ContextOf(r)][1])

\* one unit of work has ended with its token still in its context while
\* another has just been accepted and sees no credential
C19_Witness ==
    /\ pc[1] = "done" /\ kind[1] = "tool" /\ _current_user_token[ContextOf(1)] = Some(<<"a">>)
    /\ pc[2] = "accepted" /\ _current_user_token[ContextOf(2)] = None

\* C20: from its resolution on, the credential of a call does not change,
\* whatever step is taken (by this or by another unit of work): the request
\* that goes out carries it, or the fallback when it is absent, and a request
\* that is out is not altered.
C20_FixedAtResolution ==
    [][\A r \in Invocations :
          pc[r] \in {"resolved", "inflight"}
          => /\ api_key'[r] = api_key[r]
             /\ pc[r] = "inflight" => sent'[r] = sent[r]
             /\ pc'[r] = "inflight"
                   => LET cred == IF Truthy(api_key[r]) THEN api_key[r][1] ELSE FallbackKey
                          h == sent'[r][1].headers
                      IN  /\ ("Authorization" \in DOMAIN h) <=> (cred # <<>>)
                          /\ cred # <<>> => h["Authorization"] = BearerPrefix \o cred]_vars

\* a call is in flight with the token of its request while another unit of
\* work, with another token, has resolved its own
C20_Witness ==
    /\ pc[1] = "inflight" /\ api_key[1] = Some(<<"a">>)
    /\ sent[1][1].headers["Authorization"] = BearerPrefix \o <<"a">>
    /\ pc[2] = "resolved" /\ api_key[2] = Some(<<"b">>)

\* C21: a result reaches the caller only when the backend call of its
\* invocation is over: while the call is in flight there is no outcome and no
\* response yet, a returned result comes with the 2xx response of the one
\* request sent, and an invocation that ended left no call unanswered (it has
\* the response, or the transport error that ended the call).
C21_AwaitedFirst ==
    \A r \in Invocations :
        /\ pc[r] = "inflight" => outcome[r] = NoOutcome /\ response[r] = NoResponse
        /\ (kind[r] # "none" /\ outcome[r].kind = "return")
              => /\ pc[r] = "done"
                 /\ Len(sent[r]) = 1
                 /\ response[r] # NoResponse
                 /\ response[r].status \in 200..299
        /\ (kind[r] # "none" /\ pc[r] = "done")
              => response[r] # NoResponse \/ outcome[r].exc \in TransportErrors

\* a tool call returned the decoded body of the response it waited for
C21_Witness ==
    /\ pc[1] = "done" /\ kind[1] = "tool" /\ outcome[1].kind = "return"
    /\ response[1].status = 200 /\ Len(sent[1]) = 1 /\ pc[2] = "idle"

\* C22: a pending backend call of one invocation holds up no other: whatever
\* stage the other is at, its next step can be taken (it can be accepted,
\* pass the adapter, resolve, send its request, get its answer, end), and the
\* outcome it ends with is that of its own response, whatever the first one
\* got or will get.
C22_NonBlocking ==
    \A a, b \in Invocations :
        (a # b /\ pc[a] = "inflight")
        => /\ (pc[b] = "idle" /\ main_pc = "http")
                 => \A sc \in ConcurrentScopes : ENABLED Accept(b, sc)
           /\ pc[b] = "accepted" => ENABLED Middleware(b)
           /\ pc[b] = "handler" => ENABLED HandlerGetClient(b)
           /\ pc[b] = "client" => ENABLED ToolResolve(b)
           /\ pc[b] = "resolved" => ENABLED Request(b)
           /\ pc[b] = "inflight" => \A resp \in FewResponses : ENABLED Respond(b, resp)
           /\ pc[b] = "done" => ENABLED Release(b)
           /\ (pc[b] = "done" /\ response[b] # NoResponse)
                 => outcome[b] = Decode_Response(response[b])

\* the later call has ended with a result while the first is still pending
C22_Witness ==
    /\ pc[1] = "inflight" /\ pc[2] = "done"
    /\ kind[2] = "tool" /\ outcome[2].kind = "return"

\* the configured base URL, and the stored one: the configured one less its
\* trailing slashes
ConfiguredUrl == GetenvDefault("OPENWEBUI_URL", <<>>)
Slashes(k) == [i \in 1..k |-> "/"]
IsStripped(stored, given) ==
    /\ stored = <<>> \/ stored[Len(stored)] # "/"
    /\ \E k \in 0..Len(given) : given = stored \o Slashes(k)

\* C23: once the client exists its base URL and fallback credential never
\* change, whatever step any invocation takes and however it ends, and the
\* environment they were read from does not change either; they are the
\* values of the environment the process started in.
C23_ReadOnly ==
    [][/\ env' = env
       /\ _client # None => _client' = _client
       /\ _client' # None
             => /\ IsStripped(_client'[1].base_url, ConfiguredUrl)
                /\ _client'[1].api_key = FallbackKey]_vars

\* a direct call with a key of its own has failed and the client still holds
\* the fallback of the environment
C23_Witness ==
    /\ pc[1] = "done" /\ kind[1] = "direct" /\ api_key[1] = Some(<<"a">>)
    /\ outcome[1].kind = "raise" /\ outcome[1].status = 500
    /\ _client # None /\ _client[1].api_key = <<"k">>

\* C24: the URL of every request is the stored base URL followed by the path
\* of the operation as it is; the stored base URL is the configured one
\* without trailing slash and never ends with "/", so "h" and "h/" give the
\* same URL for the same path.
C24_Url ==
    \A r \in Invocations : \A i \in 1..Len(sent[r]) :
        /\ IsStripped(_client[1].base_url, ConfiguredUrl)
        /\ sent[r][i].url = _client[1].base_url \o ClientMethod(tool[r]).path
        /\ ConfiguredUrl \in {<<"h">>, <<"h", "/">>}
              => sent[r][i].url = <<"h">> \o ClientMethod(tool[r]).path

\* a request went out for a base URL configured with a trailing slash
C24_Witness ==
    /\ ConfiguredUrl = <<"h", "/">> /\ pc[1] = "inflight"
    /\ tool[1].name = "get_user"
    /\ sent[1][1].url = <<"h">> \o UsersPath \o <<"u">>

\* r carries no usable Bearer header: none at all, another scheme, or an
\* empty token
NoUsableBearer(r) ==
    scope[r].type = "http" /\ ~ \E t \in Tokens \ {<<>>} : ArrivedWith(r, t)

\* C25: over http, with a fallback credential configured, a request without
\* a usable Bearer header is served, and each backend request of its tool
\* call carries "Bearer " and the fallback credential: never no credential.
C25_FallbackIdentity ==
    \A r \in Invocations :
        (main_pc = "http" /\ kind[r] = "tool" /\ NoUsableBearer(r) /\ FallbackKey # <<>>)
        => /\ pc[r] \in {"inflight", "done"} => Len(sent[r]) = 1
           /\ \A i \in 1..Len(sent[r]) :
                 /\ "Authorization" \in DOMAIN sent[r][i].headers
                 /\ sent[r][i].headers["Authorization"] = BearerPrefix \o FallbackKey

\* a request with a Basic header was sent on with the fallback key
C25_Witness ==
    /\ main_pc = "http" /\ kind[1] = "tool" /\ pc[1] = "inflight"
    /\ FallbackKey = <<"k">>
    /\ scope[1].headers = << <<"authorization", <<"B", "a", "s", "i", "c", " ", "a">>>> >>
    /\ sent[1][1].headers["Authorization"] = BearerPrefix \o <<"k">>

\* C27: the empty credential counts as none at each tier: the header
\* "Bearer " puts the empty token into the context, resolution passes over it
\* and takes the fallback of the environment, and an explicit api_key of ""
\* gives way to the fallback of the client: either way the request carries
\* the fallback credential, or no Authorization header when there is none.
C27_EmptyIsAbsent ==
    \A r \in Invocations :
        /\ (ArrivedWith(r, <<>>) /\ pc[r] \notin {"idle", "accepted"})
              => _current_user_token[ContextOf(r)] = Some(<<>>)
        /\ (ArrivedWith(r, <<>>) /\ kind[r] = "tool")
              => api_key[r] = Getenv("OPENWEBUI_API_KEY")
        /\ ((ArrivedWith(r, <<>>) /\ kind[r] = "tool")
              \/ (kind[r] = "direct" /\ api_key[r] = Some(<<>>)))
              => \A i \in 1..Len(sent[r]) :
                    LET h == sent[r][i].headers
                    IN  /\ ("Authorization" \in DOMAIN h) <=> (FallbackKey # <<>>)
                        /\ FallbackKey # <<>>
                              => h["Authorization"] = BearerPrefix \o FallbackKey

\* a direct call with the empty string for api_key went out with the fallback
C27_Witness ==
    /\ kind[1] = "direct" /\ api_key[1] = Some(<<>>) /\ pc[1] = "inflight"
    /\ FallbackKey = <<"k">>
    /\ sent[1][1].headers["Authorization"] = BearerPrefix \o <<"k">>

\* C28: the adapter hands every unit of work on to the wrapped app, once,
\* whatever its scope and its headers, and leaves the context alone for a
\* scope that is not http.
C28_AlwaysForwards ==
    \A r \in Invocations :
        (scope[r].type \in {"http", "lifespan"} /\ pc[r] \notin {"idle", "accepted"})
        => /\ forwards[r] = 1
           /\ scope[r].type = "lifespan" => _current_user_token[ContextOf(r)] = None

\* C29: at most one client is ever constructed, it is stored when it is, and
\* every call that resolved or went out did so through it; when construction
\* fails nothing is stored, and each invocation that reaches get_client then
\* fails on a construction of its own.
C29_Singleton ==
    /\ constructed <= 1
    /\ (_client = None) <=> (constructed = 0)
    /\ \A r \in Invocations :
          /\ (pc[r] \in {"client", "resolved", "inflight"} \/ kind[r] # "none")
                => /\ _client # None
                   /\ \A i \in 1..Len(sent[r]) :
                         sent[r][i].url = _client[1].base_url \o ClientMethod(tool[r]).path
          /\ outcome[r].exc = "ValueError" => _client = None
          /\ (tool[r].name # "none" /\ ~ClientInit(None, None).ok)
                => pc[r] = "done" /\ outcome[r] = Raised("ValueError", 0, <<>>)

\* two concurrent calls are out through the one client that was constructed
C29_Witness ==
    /\ constructed = 1 /\ _client # None
    /\ pc[1] = "inflight" /\ pc[2] = "inflight"
    /\ sent[1][1].url = sent[2][1].url

\* C30: once main() is past the URL test a transport runs, whatever the rest
\* of the environment: the http one, with the adapter, when MCP_TRANSPORT is
\* "http" in any case, the stdio one, without it, for every other value.
C30_TransportTotal ==
    (main_pc # "start" /\ Truthy(Getenv("OPENWEBUI_URL")))
    => /\ IF StdioConfigured THEN main_pc = "stdio" ELSE main_pc = "http"
       /\ \A r \in Invocations : forwards[r] > 0 => main_pc = "http"

\* C26: the adapter writes the context variable and never clears it: when it
\* has run for a unit of work, the variable holds the text after "Bearer " if
\* the Authorization header starts with it, and in every other case (no
\* header, another scheme, a scope that is not http) the very value it held
\* when the adapter was entered, so it is unset after only if unset before.
C26_NeverResets ==
    [][\A r \in Invocations :
          (pc[r] = "accepted" /\ pc'[r] # "accepted")
          => IF \E t \in Tokens : ArrivedWith(r, t)
             THEN ArrivedWith(r, _current_user_token'[ContextOf(r)][1])
             ELSE _current_user_token'[ContextOf(r)] = _current_user_token[ContextOf(r)]]_vars

\* a request without Authorization header is past the adapter, and the value
\* the variable held on entry is still there
C26_Witness ==
    /\ pc[1] = "handler" /\ ArrivedBare(1) /\ forwards[1] = 1
    /\ _current_user_token[ContextOf(1)] = Some(<<"z">>)

====
